---- MODULE Spec2Model ----
(***************************************************************************)
(* Model of the sales dashboard repository:                                *)
(*   src/db_loader.py      load_data: CSV -> table sales_data, with the    *)
(*                         connection retry loop                           *)
(*   src/flask_app/app.py  run_db_query, calculate_kpis_and_data and the   *)
(*                         dashboard route                                 *)
(* Money amounts are exact integers (dollars); quotients are exact         *)
(* rationals [num, den]; 0/0 stands for the float NaN.                     *)
(***************************************************************************)
EXTENDS Integers, Sequences, FiniteSets, TLC

VARIABLES csv, table, pc, retry_count, log, resp

vars == <<csv, table, pc, retry_count, log, resp>>

(***************************************************************************)
(* Bounds of the model.                                                    *)
(***************************************************************************)
MaxRows == 2
MaxKpiRows == 3
MaxCountries == 11
MaxFcRows == 3

(***************************************************************************)
(* Program constants.                                                      *)
(***************************************************************************)
max_retries == 10
future_months == 6
TopN == 10

NULL == "<NULL>"
Absent == [exists |-> FALSE, rows |-> <<>>]

Table(rows) == [exists |-> TRUE, rows |-> rows]

(***************************************************************************)
(* Labels in Python's string order, the order groupby(sort=True) gives     *)
(* the group keys.                                                         *)
(***************************************************************************)
LabelOrder ==
    <<"Australia", "Austria", "Belgium", "Canada", "Classic Cars", "Denmark",
      "Finland", "France", "Germany", "Ireland", "Italy", "Japan",
      "Motorcycles", "Norway", "Philippines", "Singapore", "Spain", "Sweden",
      "Switzerland", "UK", "USA">>

RankOf ==
    [l \in {LabelOrder[i] : i \in 1..Len(LabelOrder)} |->
        CHOOSE i \in 1..Len(LabelOrder) : LabelOrder[i] = l]

Rank(l) == RankOf[l]

Min(a, b) == IF a <= b THEN a ELSE b

Reverse(s) == [i \in 1..Len(s) |-> s[Len(s) + 1 - i]]

RECURSIVE SumSales(_)
SumSales(rows) ==
    IF rows = <<>> THEN 0 ELSE rows[1].sales + SumSales(Tail(rows))

(***************************************************************************)
(* Calendar.                                                               *)
(***************************************************************************)
IsLeap(y) == (y % 4 = 0 /\ y % 100 # 0) \/ y % 400 = 0

DaysInMonth(y, m) ==
    IF m = 2 THEN (IF IsLeap(y) THEN 29 ELSE 28)
    ELSE IF m \in {4, 6, 9, 11} THEN 30 ELSE 31

Date(y, m, d) == [y |-> y, m |-> m, d |-> d]

MonthIndex(date) == date.y * 12 + date.m - 1

MonthEnd(mi) ==
    Date(mi \div 12, (mi % 12) + 1, DaysInMonth(mi \div 12, (mi % 12) + 1))

(***************************************************************************)
(* pandas: df.groupby(col)['sales'].sum().  Rows whose key is NULL are     *)
(* dropped (dropna=True) and the groups come out in key order (sort=True). *)
(***************************************************************************)
RECURSIVE SortedKeys(_)
SortedKeys(K) ==
    IF K = {} THEN <<>>
    ELSE LET k == CHOOSE x \in K : \A z \in K : Rank(x) <= Rank(z)
         IN  <<k>> \o SortedKeys(K \ {k})

RECURSIVE FirstSeenKeys(_, _)
FirstSeenKeys(rows, col) ==
    IF rows = <<>> THEN <<>>
    ELSE LET k == rows[1][col]
             rest == FirstSeenKeys(SelectSeq(Tail(rows), LAMBDA r : r[col] # k), col)
         IN  IF k = NULL THEN rest ELSE <<k>> \o rest

GroupEntries(rows, col, keys) ==
    [i \in 1..Len(keys) |->
        [key |-> keys[i],
         sales |-> SumSales(SelectSeq(rows, LAMBDA r : r[col] = keys[i]))]]

(* Variant: groupby(col, sort=False), groups in order of first appearance. *)
groupby_sum_unsorted(rows, col) ==
    GroupEntries(rows, col, FirstSeenKeys(rows, col))

groupby_sum(rows, col) ==
    GroupEntries(rows, col,
                 SortedKeys({rows[i][col] : i \in 1..Len(rows)} \ {NULL}))

(***************************************************************************)
(* pandas: Series.sort_values(ascending=False).  nargsort reverses the     *)
(* values, argsorts them ascending and reverses the result; numpy's        *)
(* default sort is an insertion sort on the short arrays modelled here, so *)
(* equal values keep the order they had in the input.                      *)
(***************************************************************************)
RECURSIVE InsertAsc(_, _)
InsertAsc(x, s) ==
    IF s = <<>> THEN <<x>>
    ELSE IF x.sales < s[1].sales THEN <<x>> \o s
    ELSE <<s[1]>> \o InsertAsc(x, Tail(s))

RECURSIVE ArgsortAsc(_)
ArgsortAsc(s) ==
    IF s = <<>> THEN <<>>
    ELSE InsertAsc(s[Len(s)], ArgsortAsc(SubSeq(s, 1, Len(s) - 1)))

(* Variant: sort_values() with the default ascending=True. *)
sort_values_asc(s) == ArgsortAsc(s)

sort_values(s) == Reverse(ArgsortAsc(Reverse(s)))

head(s, n) == SubSeq(s, 1, Min(n, Len(s)))

product_sales(df) == sort_values(groupby_sum(df, "product_line"))

(* Variant: head(10) taken before the sort. *)
country_sales_head_first(df) == sort_values(head(groupby_sum(df, "country"), TopN))

country_sales(df) == head(sort_values(groupby_sum(df, "country")), TopN)

(***************************************************************************)
(* KPI calculation and formatting.  Fmt2 is the ":,.2f" conversion: the    *)
(* exact quotient num/den rounded to cents, ties to even.                  *)
(***************************************************************************)
Fmt2(num, den) ==
    LET q == (100 * num) \div den
        r == (100 * num) % den
    IN  IF 2 * r < den THEN q
        ELSE IF 2 * r > den THEN q + 1
        ELSE IF q % 2 = 0 THEN q ELSE q + 1

nunique(rows, col) == Cardinality({rows[i][col] : i \in 1..Len(rows)})

kpis_of(df) ==
    LET total_revenue == SumSales(df)
        total_orders == nunique(df, "order_number")
    IN  [TotalRevenue |-> Fmt2(total_revenue, 1),
         EstimatedProfit |-> Fmt2(total_revenue * 30, 100),
         TotalOrders |-> total_orders,
         AOV |-> IF total_orders # 0 THEN Fmt2(total_revenue, total_orders) ELSE 0]

(***************************************************************************)
(* pandas: df.set_index('order_date').resample('ME')['sales'].sum().       *)
(* One bin per calendar month from the first to the last month of the      *)
(* data, labelled with its month end; the sum of an empty bin is 0.        *)
(***************************************************************************)
MonthSet(df) == {MonthIndex(df[i].order_date) : i \in 1..Len(df)}

FirstMonth(df) == CHOOSE a \in MonthSet(df) : \A b \in MonthSet(df) : a <= b

LastMonth(df) == CHOOSE a \in MonthSet(df) : \A b \in MonthSet(df) : a >= b

MonthBin(df, mi) ==
    [order_date |-> MonthEnd(mi),
     sales |-> SumSales(SelectSeq(df, LAMBDA r : MonthIndex(r.order_date) = mi))]

(* Variant: groupby on the month, which has no entry for an empty month. *)
resample_observed_only(df) ==
    LET months == MonthSet(df)
        ordered[S \in SUBSET months] ==
            IF S = {} THEN <<>>
            ELSE LET a == CHOOSE x \in S : \A z \in S : x <= z
                 IN  <<MonthBin(df, a)>> \o ordered[S \ {a}]
    IN  ordered[months]

resample_ME_sum(df) ==
    IF df = <<>> THEN <<>> ELSE
    [i \in 1..(LastMonth(df) - FirstMonth(df) + 1) |->
        MonthBin(df, FirstMonth(df) + i - 1)]

(***************************************************************************)
(* numpy: z = np.polyfit(X, y, 1) with X = arange(n); p = np.poly1d(z).    *)
(* The least-squares line, as exact rationals over the common denominator  *)
(* n*Sxx - Sx^2.  With a single point the column of X is all zero: polyfit *)
(* scales it by its norm 0 (0/0 = NaN) and hands the NaN to LAPACK, which  *)
(* fails (LinAlgError) or returns NaN coefficients: polyfit_faults.        *)
(***************************************************************************)
RECURSIVE SumSeq(_)
SumSeq(s) == IF s = <<>> THEN 0 ELSE s[1] + SumSeq(Tail(s))

arange(lo, hi) == [i \in 1..(hi - lo) |-> lo + i - 1]

(* Variant: np.polyfit(X, y, 0), the mean. *)
polyfit_degree_0(X, y) ==
    [slope |-> 0, intercept |-> SumSeq(y), den |-> Len(X)]

polyfit(X, y) ==
    LET n == Len(X)
        Sx == SumSeq(X)
        Sxx == SumSeq([i \in 1..n |-> X[i] * X[i]])
        Sy == SumSeq(y)
        Sxy == SumSeq([i \in 1..n |-> X[i] * y[i]])
    IN  [slope |-> n * Sxy - Sx * Sy,
         intercept |-> Sy * Sxx - Sx * Sxy,
         den |-> n * Sxx - Sx * Sx]

polyfit_faults(X) == \A i \in 1..Len(X) : X[i] = 0

poly1d(z, x) == [num |-> z.intercept + z.slope * x, den |-> z.den]

NaN == [num |-> 0, den |-> 0]

(***************************************************************************)
(* pandas: pd.date_range(start, periods, freq='ME'): the month end on or   *)
(* after start, then the following month ends.                             *)
(***************************************************************************)
date_range(start, periods) ==
    [i \in 1..periods |-> MonthEnd(MonthIndex(start) + i - 1)]

future_dates_of(last_date) == Tail(date_range(last_date, future_months + 1))

(***************************************************************************)
(* app.py: run_db_query.  The query result is the table's rows, or None    *)
(* when the query raises (no table yet, database unreachable).             *)
(***************************************************************************)
QueryFailed == [ok |-> FALSE, rows |-> <<>>]

QueryRows(rows) == [ok |-> TRUE, rows |-> rows]

NoKpis == [none |-> TRUE]

QueryStatus(q) == IF ~q.ok THEN "failed" ELSE IF q.rows = <<>> THEN "empty" ELSE "rows"

Result(kind, query, ran, kpis, ps, cs, ms, fc) ==
    [kind |-> kind, query |-> query, ran |-> ran, kpis |-> kpis,
     product_sales |-> ps, country_sales |-> cs, monthly_sales |-> ms,
     forecast |-> fc]

(***************************************************************************)
(* app.py: calculate_kpis_and_data.  "query" records what run_db_query     *)
(* returned and "ran" the stages executed.                                 *)
(* fault is what the numeric library does with the degenerate fit: it      *)
(* raises LinAlgError ("raise") or returns NaN coefficients ("nan").       *)
(***************************************************************************)
(* Variant: "if df is None" without the df.empty test. *)
no_data_none_only(q) == ~q.ok

no_data(q) == ~q.ok \/ Len(q.rows) = 0

forecast_values(monthly_sales, X, X_future) ==
    LET y == [i \in 1..Len(monthly_sales) |-> monthly_sales[i].sales]
        z == polyfit(X, y)
    IN  [i \in 1..Len(X_future) |->
            IF polyfit_faults(X) THEN NaN ELSE poly1d(z, X_future[i])]

calculate_kpis_and_data(q, fault) ==
    IF no_data(q)
    THEN Result("returned", QueryStatus(q), {"query"}, NoKpis, <<>>, <<>>, <<>>, <<>>)
    ELSE
    LET df == q.rows
        kpis == kpis_of(df)
        ps == product_sales(df)
        cs == country_sales(df)
        monthly_sales == resample_ME_sum(df)
        n == Len(monthly_sales)
        X == arange(0, n)
        X_future == arange(n, n + future_months)
    IN  IF polyfit_faults(X) /\ (fault = "raise" \/ n = 0)
        THEN Result("raised", QueryStatus(q),
                    {"query", "kpi", "segmentation", "resample", "polyfit"},
                    NoKpis, <<>>, <<>>, <<>>, <<>>)
        ELSE
        LET forecasted_sales == forecast_values(monthly_sales, X, X_future)
            future_dates == future_dates_of(monthly_sales[n].order_date)
        IN  Result("returned", QueryStatus(q),
                   {"query", "kpi", "segmentation", "resample", "polyfit",
                    "date_range", "charts"},
                   kpis, ps, cs, monthly_sales,
                   [i \in 1..Len(future_dates) |->
                       [date |-> future_dates[i], sales |-> forecasted_sales[i]]])

(***************************************************************************)
(* app.py: dashboard.  An exception escaping the view is Flask's 500       *)
(* response.                                                               *)
(***************************************************************************)
dashboard_response(r) ==
    IF r.kind = "raised" THEN [r EXCEPT !.kind = "error"]
    ELSE IF r.kpis = NoKpis THEN [r EXCEPT !.kind = "nodata"]
    ELSE [r EXCEPT !.kind = "dashboard"]

NoResponse == Result("none", "none", {}, NoKpis, <<>>, <<>>, <<>>, <<>>)

Faults == {"raise", "nan"}

dashboard ==
    /\ \/ resp' = dashboard_response(calculate_kpis_and_data(QueryFailed, "raise"))
       \/ /\ table.exists
          /\ \E fault \in Faults :
                resp' = dashboard_response(
                            calculate_kpis_and_data(QueryRows(table.rows), fault))
    /\ UNCHANGED <<csv, table, pc, retry_count, log>>

(***************************************************************************)
(* db_loader.py: load_data.                                                *)
(***************************************************************************)
loop_head(rc) == IF rc < max_retries THEN "connect" ELSE "write"

(* Variant: the handler without its raise; the loop ends on its condition. *)
after_failure_no_raise(rc) == loop_head(rc)

after_failure(rc) == IF rc = max_retries THEN "raised" ELSE loop_head(rc)

read_csv ==
    /\ pc = "start"
    /\ pc' = loop_head(0)
    /\ retry_count' = 0
    /\ UNCHANGED <<csv, table, log, resp>>

connect_ok ==
    /\ pc = "connect"
    /\ pc' = "write"
    /\ log' = Append(log, "connect_ok")
    /\ UNCHANGED <<csv, table, retry_count, resp>>

connect_fails ==
    /\ pc = "connect"
    /\ retry_count' = retry_count + 1
    /\ pc' = after_failure(retry_count')
    /\ log' = log \o <<"connect_failed", "sleep">>
    /\ UNCHANGED <<csv, table, resp>>

to_sql ==
    /\ pc = "write"
    /\ pc' = "done"
    /\ log' = Append(log, "write")
    /\ \/ table' = Table(csv)
       \/ table' = table
    /\ UNCHANGED <<csv, retry_count, resp>>

load_data == read_csv \/ connect_ok \/ connect_fails \/ to_sql

(***************************************************************************)
(* Inputs.                                                                 *)
(***************************************************************************)
SeqsUpTo(R, n) == UNION {[1..k -> R] : k \in 0..n}

Row(s, d, o, pl, c) ==
    [sales |-> s, order_date |-> d, order_number |-> o, product_line |-> pl,
     country |-> c]

OrderDate(o) == IF o = 10100 THEN Date(2003, 1, 6) ELSE Date(2003, 3, 26)

OrderCountry(o) == IF o = 10100 THEN "USA" ELSE "France"

OrderRow(s, o, pl) == Row(s, OrderDate(o), o, pl, OrderCountry(o))

GenRecords ==
    {OrderRow(s, o, pl) : s \in {100, 200}, o \in {10100, 10103},
                          pl \in {"Motorcycles", "Classic Cars"}}
    \cup {OrderRow(100, 10103, NULL)}

GenCsv == SeqsUpTo(GenRecords, MaxRows)

CountryPool ==
    <<"Australia", "Austria", "Belgium", "Canada", "Denmark", "Finland",
      "France", "Germany", "Ireland", "Italy", "Japan", "Norway",
      "Philippines", "Singapore", "Spain", "Sweden", "Switzerland", "UK", "USA">>

TopRow(i, s) ==
    Row(s, IF i % 2 = 1 THEN Date(2003, 1, 6) ELSE Date(2003, 2, 24), 10100 + i,
        "Classic Cars", CountryPool[((i * 7) % Len(CountryPool)) + 1])

TopCsv ==
    {[i \in 1..Len(f) |-> TopRow(i, f[i])] \o
        (IF extra > 0 /\ Len(f) > 0 THEN <<TopRow(1, extra)>> ELSE <<>>) :
        f \in SeqsUpTo({100, 200}, MaxCountries), extra \in {0, 200}}

FcDates == {Date(2003, 11, 30), Date(2003, 12, 1), Date(2004, 1, 15), Date(2004, 3, 31)}

FcRecords ==
    {Row(s, d, 10000 + MonthIndex(d), "Classic Cars", "USA") :
        s \in {100, 200, 300}, d \in FcDates}

FcCsv == SeqsUpTo(FcRecords, MaxFcRows)

(***************************************************************************)
(* Specifications.  Spec: the loader and the dashboard against a database  *)
(* that starts without the table.  SpecKpi, SpecTop and SpecForecast:      *)
(* dashboard requests against a table load_data has written.               *)
(***************************************************************************)
Init ==
    /\ csv \in GenCsv
    /\ table = Absent
    /\ pc = "start"
    /\ retry_count = 0
    /\ log = <<>>
    /\ resp = NoResponse

Loaded(inputs) ==
    /\ csv \in inputs
    /\ table = Table(csv)
    /\ pc = "done"
    /\ retry_count = 0
    /\ log = <<"connect_ok", "write">>
    /\ resp = NoResponse

InitKpi == Loaded(SeqsUpTo(GenRecords, MaxKpiRows))

InitTop == Loaded(TopCsv)

InitForecast == Loaded(FcCsv)

Next == load_data \/ dashboard

Spec == Init /\ [][Next]_vars

SpecKpi == InitKpi /\ [][dashboard]_vars

SpecTop == InitTop /\ [][dashboard]_vars

SpecForecast == InitForecast /\ [][dashboard]_vars

(***************************************************************************)
(* Vocabulary of the properties.  A "dashboard" or "error" response was    *)
(* computed from the rows of the table (load_data writes the table once).  *)
(***************************************************************************)
Rows == table.rows

Served == resp.kind = "dashboard"

RowsWith(col, k) == SelectSeq(Rows, LAMBDA r : r[col] = k)

KeysOf(col) == {Rows[i][col] : i \in 1..Len(Rows)} \ {NULL}

NonIncreasing(s) == \A i \in 1..Len(s) : \A j \in 1..Len(s) : i < j => s[i].sales >= s[j].sales

DistinctKeys(s) == \A i \in 1..Len(s) : \A j \in 1..Len(s) : s[i].key = s[j].key => i = j

FirstOccurrence(col, k) == CHOOSE i \in 1..Len(Rows) :
    Rows[i][col] = k /\ \A j \in 1..(i - 1) : Rows[j][col] # k

Months == {MonthIndex(Rows[i].order_date) : i \in 1..Len(Rows)}

MonthSums == [i \in 1..Len(resp.monthly_sales) |-> resp.monthly_sales[i].sales]

(* C1: the values of sales_by_product_line add up to total_revenue, the sum of
   sales over all records (no record dropped, none counted twice). *)
C1_ProductLineSumIsTotalRevenue ==
    Served => 100 * SumSales(resp.product_sales) = resp.kpis.TotalRevenue

(* C2: sales_by_country has at most 10 entries, in non-increasing order of
   summed sales, and they are the 10 largest country sums: each entry is a
   country of the data with its sum, and every country left out has a sum no
   greater than every country kept. *)
C2_TopTenCountries ==
    Served =>
        LET cs == resp.country_sales
            kept == {cs[i].key : i \in 1..Len(cs)}
        IN  /\ Len(cs) <= 10
            /\ Len(cs) = Min(10, Cardinality(KeysOf("country")))
            /\ NonIncreasing(cs)
            /\ DistinctKeys(cs)
            /\ \A i \in 1..Len(cs) :
                    /\ cs[i].key \in KeysOf("country")
                    /\ cs[i].sales = SumSales(RowsWith("country", cs[i].key))
            /\ \A c \in KeysOf("country") \ kept : \A i \in 1..Len(cs) :
                    SumSales(RowsWith("country", c)) <= cs[i].sales

C2_Witness ==
    /\ Served
    /\ Len(resp.country_sales) = 10
    /\ \E c \in KeysOf("country") :
        /\ \A i \in 1..10 : resp.country_sales[i].key # c
        /\ SumSales(RowsWith("country", c)) = resp.country_sales[10].sales
    /\ \E c \in KeysOf("country") : Len(RowsWith("country", c)) > 1
    /\ resp.country_sales[1].sales > resp.country_sales[10].sales

(* C3: when the read query fails or returns no rows, calculate_kpis_and_data
   runs no aggregation or fit step and returns the "no data" result, and
   dashboard answers with the no-data message (it does not raise). *)
C3_NoDataShortCircuit ==
    resp.query \in {"failed", "empty"} =>
        /\ resp.kind = "nodata"
        /\ resp.ran = {"query"}
        /\ resp.kpis = NoKpis
        /\ resp.product_sales = <<>> /\ resp.country_sales = <<>>
        /\ resp.monthly_sales = <<>> /\ resp.forecast = <<>>

C3_Witness == table.exists /\ Rows = <<>> /\ resp.query = "empty" /\ resp.kind = "nodata"

(* C4 as stated: the monthly sequence has one entry per calendar month that
   contains a record and no entry for a month without records. *)
C4_OnlyObservedMonths ==
    Served =>
        /\ Len(resp.monthly_sales) = Cardinality(Months)
        /\ \A i \in 1..Len(resp.monthly_sales) :
                MonthIndex(resp.monthly_sales[i].order_date) \in Months

(* C4 amended: the monthly sequence has exactly one entry for every calendar
   month from the first to the last observed month, in chronological order,
   each carrying the sum of that month's sales; a month without records
   between two observed months is present with total 0, so the fit indices
   number consecutive calendar months. *)
C4_EveryMonthFirstToLast ==
    Served =>
        LET ms == resp.monthly_sales
            first == CHOOSE a \in Months : \A b \in Months : a <= b
            last == CHOOSE a \in Months : \A b \in Months : a >= b
        IN  /\ Len(ms) = last - first + 1
            /\ \A i \in 1..Len(ms) :
                    /\ MonthIndex(ms[i].order_date) = first + i - 1
                    /\ ms[i].sales =
                         SumSales(SelectSeq(Rows,
                             LAMBDA r : MonthIndex(r.order_date) = first + i - 1))
                    /\ (first + i - 1 \notin Months => ms[i].sales = 0)

C4_Witness ==
    /\ Served
    /\ \E i \in 1..Len(resp.monthly_sales) :
        /\ MonthIndex(resp.monthly_sales[i].order_date) \notin Months
        /\ resp.monthly_sales[i].sales = 0
        /\ 1 < i /\ i < Len(resp.monthly_sales)

(* C5: when all records fall in one calendar month, the forecast step still
   produces a defined result: the request does not end in an unhandled fault
   and no forecast value is undefined. *)
C5_DegenerateForecastDefined ==
    (resp.query = "rows" /\ Cardinality(Months) < 2) =>
        /\ Served
        /\ Len(resp.forecast) = 6
        /\ \A i \in 1..Len(resp.forecast) : resp.forecast[i].sales.den # 0

(* C6: for every non-empty record set the forecast has exactly 6 points, in
   chronological order, dated with the 6 consecutive calendar month ends
   that follow the last observed month. *)
C6_SixFutureMonthEnds ==
    resp.query = "rows" =>
        LET last == CHOOSE a \in Months : \A b \in Months : a >= b
        IN  /\ Served
            /\ Len(resp.forecast) = 6
            /\ \A i \in 1..Len(resp.forecast) :
                    LET mi == last + i
                        date == resp.forecast[i].date
                    IN  /\ date.y = mi \div 12
                        /\ date.m = (mi % 12) + 1
                        /\ date.d = DaysInMonth(date.y, date.m)

(* C7 as stated: sales_by_product_line is sorted descending by summed sales
   and product lines with equal sums appear in the order of their first
   occurrence in the input. *)
C7_TiesInFirstOccurrenceOrder ==
    Served =>
        LET ps == resp.product_sales
        IN  /\ NonIncreasing(ps)
            /\ \A i \in 1..Len(ps) : \A j \in 1..Len(ps) :
                    (i < j /\ ps[i].sales = ps[j].sales) =>
                        FirstOccurrence("product_line", ps[i].key)
                            < FirstOccurrence("product_line", ps[j].key)

(* C7 amended: sales_by_product_line holds every product line of the data
   once, with its summed sales, sorted in non-increasing order of the sums;
   the order of equal sums is not the order of first occurrence. *)
C7_SortedDescending ==
    Served =>
        LET ps == resp.product_sales
        IN  /\ NonIncreasing(ps)
            /\ DistinctKeys(ps)
            /\ {ps[i].key : i \in 1..Len(ps)} = KeysOf("product_line")
            /\ \A i \in 1..Len(ps) :
                    ps[i].sales = SumSales(RowsWith("product_line", ps[i].key))

C7_Witness ==
    /\ Served
    /\ Len(resp.product_sales) = 2
    /\ resp.product_sales[1].sales = resp.product_sales[2].sales
    /\ FirstOccurrence("product_line", resp.product_sales[2].key)
            < FirstOccurrence("product_line", resp.product_sales[1].key)
    /\ Len(Rows) = 3

(* C8: recomputing from any permutation of the record sequence gives the
   same KPIs and the same sales_by_product_line and sales_by_country, in
   content and in order. *)
Permuted(p) == [i \in 1..Len(Rows) |-> Rows[p[i]]]

C8_PermutationInvariant ==
    Served =>
        \A p \in Permutations(1..Len(Rows)) :
            LET again == calculate_kpis_and_data(QueryRows(Permuted(p)), "nan")
            IN  /\ again.kpis = resp.kpis
                /\ again.product_sales = resp.product_sales
                /\ again.country_sales = resp.country_sales

C8_Witness ==
    /\ Served
    /\ Len(Rows) = 3
    /\ Len(resp.product_sales) = 2
    /\ resp.product_sales[1].sales = resp.product_sales[2].sales
    /\ Len(resp.country_sales) = 2
    /\ resp.country_sales[1].sales = resp.country_sales[2].sales
    /\ Rows[1].product_line = resp.product_sales[2].key
    /\ Rows[1].country = resp.country_sales[2].key

(* C9: the forecast is the least-squares line through (i, monthly sum i),
   i = 0..n-1, evaluated at n..n+5: its residuals are orthogonal to 1 and to
   the index; monthly sums on a line a + b*i give a + b*n, ..., a + b*(n+5);
   monthly sums [100, 200, 300] give 400 at index 3. *)
C9_LeastSquaresForecast ==
    (Served /\ Len(resp.monthly_sales) >= 2) =>
        LET y == MonthSums
            n == Len(y)
            f == [i \in 1..Len(resp.forecast) |-> resp.forecast[i].sales]
            D == f[1].den
            B == f[2].num - f[1].num
            A == f[1].num - B * n
            res == [i \in 1..n |-> D * y[i] - A - B * (i - 1)]
            ires == [i \in 1..n |-> (i - 1) * res[i]]
            step == y[2] - y[1]
        IN  /\ Len(f) = 6
            /\ D > 0
            /\ \A k \in 1..6 : f[k].den = D /\ f[k].num = A + B * (n + k - 1)
            /\ SumSeq(res) = 0
            /\ SumSeq(ires) = 0
            /\ (\A i \in 2..n : y[i] - y[i - 1] = step) =>
                    \A k \in 1..6 : f[k].num = D * (y[1] + step * (n + k - 1))
            /\ y = <<100, 200, 300>> => f[1].num = 400 * f[1].den

C9_Witness ==
    /\ Served
    /\ MonthSums = <<100, 200, 300>>
    /\ resp.forecast[1].sales.num = 400 * resp.forecast[1].sales.den
    /\ resp.forecast[6].sales.num = 900 * resp.forecast[6].sales.den

(* C10: load_data attempts the table write only after a connection attempt
   has succeeded, makes no connection attempt after the first success, makes
   at most 10 attempts, and when all 10 fail (a sleep after each) it raises
   ConnectionError and never attempts the write. *)
Count(s, e) == Cardinality({i \in 1..Len(s) : s[i] = e})

C10_RetryThenWrite ==
    /\ Count(log, "connect_ok") + Count(log, "connect_failed") <= 10
    /\ Count(log, "connect_ok") <= 1
    /\ Count(log, "write") <= 1
    /\ \A i \in 1..Len(log) :
        /\ log[i] = "write" => \E j \in 1..(i - 1) : log[j] = "connect_ok"
        /\ log[i] = "connect_ok" =>
               \A j \in (i + 1)..Len(log) : log[j] \notin {"connect_ok", "connect_failed"}
        /\ log[i] = "connect_failed" => (i < Len(log) /\ log[i + 1] = "sleep")
    /\ pc = "raised" <=>
           (Count(log, "connect_failed") = 10 /\ Count(log, "connect_ok") = 0)
    /\ pc = "raised" => (Count(log, "sleep") = 10 /\ Count(log, "write") = 0)
    /\ pc \in {"write", "done"} <=> Count(log, "connect_ok") = 1

C10_Witness ==
    /\ pc = "done"
    /\ Count(log, "connect_failed") = 9
    /\ log[Len(log)] = "write"
    /\ table.exists

C10_WitnessAllFail == pc = "raised" /\ Len(log) = 20 /\ ~table.exists

====
